---- MODULE Spec2Model ----
(***************************************************************************)
(* Source-aggregation and generator-invocation pipeline of                 *)
(* endless_sky_generator_web (www/index.js, www/export_to_rust.js and      *)
(* www/generators).                                                        *)
(*                                                                         *)
(* The page runs on one JavaScript thread.  A handler runs without         *)
(* interruption from the event that starts or resumes it up to its next    *)
(* pending `await` (a fetch, a response body, a FileReader load): the      *)
(* continuation of `await getPathsAndSources()` and of the `.then` chains  *)
(* are microtasks of the same task, so no other handler runs in between.   *)
(* Each action below is one such uninterrupted stretch.                    *)
(***************************************************************************)
EXTENDS Integers, Sequences, FiniteSets, TLC

\* ------------------------------------------------------------------ bounds
MaxRequests == 2
MaxUploads == 1
MaxFiles == 2
MaxManifestLen == 3
MaxFieldValue == 1
MaxFormRequests == 1

\* --------------------------------------------------------------- alphabets
NL == "\n"
PathChars == {"a", "b"}
Chars == PathChars \cup {NL}

RECURSIVE SeqsUpTo(_, _)
SeqsUpTo(S, n) ==
  IF n = 0 THEN {<<>>}
  ELSE LET shorter == SeqsUpTo(S, n - 1)
       IN  shorter \cup {Append(s, c) : s \in {t \in shorter : Len(t) = n - 1}, c \in S}

\* Bodies the server may serve for es_stable_data_paths.txt.
Manifests == SeqsUpTo(Chars, MaxManifestLen)

\* String.prototype.split with a one-character separator: the pieces between
\* separators, empty pieces included; always at least one piece.
RECURSIVE SplitFrom(_, _, _)
SplitFrom(s, sep, cur) ==
  IF s = <<>> THEN <<cur>>
  ELSE IF Head(s) = sep THEN <<cur>> \o SplitFrom(Tail(s), sep, <<>>)
  ELSE SplitFrom(Tail(s), sep, Append(cur, Head(s)))

Split(s, sep) == SplitFrom(s, sep, <<>>)

\* The text of the document a name refers to (response.text() of a fetched
\* location, reader.result of an uploaded file).
TextOf(name) == <<"text", name>>

\* String.prototype.startsWith
StartsWith(s, prefix) ==
  /\ Len(s) >= Len(prefix)
  /\ SubSeq(s, 1, Len(prefix)) = prefix

TextPrefix == <<"t", "e", "x", "t">>
MediaTypes == { <<"t", "e", "x", "t", "/", "p">>, <<"i", "m", "g">> }
FileNames == { <<"a">>, <<"u">> }
Files == [name : FileNames, type : MediaTypes]
FileLists == {fl \in SeqsUpTo(Files, MaxFiles) : Len(fl) >= 1}


\* ------------------------------------------------------------------ fields
\* The configuration inputs the click handlers read: the four checked System
\* Shuffler fields and the Chaos seed.
CheckedShufflerFields ==
  <<"system-shuffler-seed", "system-shuffler-max-presets",
    "system-shuffler-shuffle-chance-output", "system-shuffler-fixed-shuffle-days-output">>
CheckedChaosFields == <<"chaos-seed">>
Fields ==
  {CheckedShufflerFields[i] : i \in 1..Len(CheckedShufflerFields)}
    \cup {CheckedChaosFields[i] : i \in 1..Len(CheckedChaosFields)}

\* The range inputs share_value ties to a checked field, with that field.
\* Their own value is read only by their own "input" listener, at the event
\* that sets it, so it is an input of that event and not part of the state.
RangePartner ==
  [f \in {"system-shuffler-shuffle-chance", "system-shuffler-fixed-shuffle-days"} |->
     IF f = "system-shuffler-shuffle-chance"
     THEN "system-shuffler-shuffle-chance-output"
     ELSE "system-shuffler-fixed-shuffle-days-output"]
RangeFields == DOMAIN RangePartner

\* Values a field can hold: 0 stands for a value its constraint rejects (an
\* empty seed, a number out of range), the others for values it accepts.
FieldValues == 0..MaxFieldValue

\* HTMLInputElement.checkValidity() of a field holding v.
checkValidity(v) == v >= 1

\* ------------------------------------------------------------- generators
Kinds == {"full_map", "system_shuffler", "chaos"}

\* A variant that names every archive after the full map.
fileNameOfFullMap(kind) == "full_map.zip"

\* The file name each click listener passes to downloadZip.
fileName(kind) ==
  CASE kind = "full_map" -> "full_map.zip"
    [] kind = "system_shuffler" -> "system_shuffler.zip"
    [] kind = "chaos" -> "chaos.zip"

\* What a call of the foreign generator routine can do: return bytes, raise,
\* or not return.  The call is synchronous, so a call that does not return
\* keeps the one thread of the page.
Raised == [raised |-> TRUE, bytes |-> <<>>]
NoReturn == [raised |-> FALSE, bytes |-> <<>>]
GeneratorBytes == { <<1>>, <<2, 3>> }
GeneratorOutcomes ==
  {[raised |-> FALSE, bytes |-> b] : b \in GeneratorBytes} \cup {Raised, NoReturn}

ManifestUrl == <<"es_stable_data_paths.txt">>

\* ------------------------------------------------------------------- state
VARIABLES
  defaults_checked,        \* index.js:19
  default_paths,           \* index.js:21
  default_sources,         \* index.js:22
  loaded_paths,            \* index.js:24
  loaded_sources,          \* index.js:25
  include_defaults,        \* include_defaults.checked
  field,                   \* value of every configuration input
  shuffle_once_on_install, \* shuffle_once_on_install.checked
  manifest,                \* body the server serves for the manifest
  req,                     \* generation handlers, one per click
  up,                      \* input change handlers, one per change event
  console,                 \* console.error calls, in order
  calls,                   \* calls of the generator routines, in order
  downloads,               \* downloadZip calls, in order
  fetches,                 \* fetch calls of each handler, in order
  cleared                  \* a clear-uploads click happened and no upload action started since

vars ==
  <<defaults_checked, default_paths, default_sources, loaded_paths, loaded_sources,
    include_defaults, field, shuffle_once_on_install, manifest, req, up, console,
    calls, downloads, fetches, cleared>>

Requests == 1..MaxRequests

\* The thread of the page is free: no handler is inside a generator call.
\* Event handlers and continuations run only then.
Responsive == \A r \in Requests : req[r].pc # "calling"
Uploads == 1..MaxUploads

NoRet == [paths |-> <<>>, sources |-> <<>>]

IdleRequest ==
  [pc |-> "idle", kind |-> "full_map", es_stable_data_paths |-> <<>>, i |-> 0,
   oks |-> <<>>, overlapped |-> FALSE, paths_and_sources |-> NoRet]

IdleUpload == [pc |-> "idle", files |-> <<>>, idx |-> 0]

\* The defaults of the form: every field valid.
DefaultFields == [f \in Fields |-> 1]

Init ==
  /\ defaults_checked = FALSE
  /\ default_paths = <<>>
  /\ default_sources = <<>>
  /\ loaded_paths = <<>>
  /\ loaded_sources = <<>>
  /\ include_defaults \in BOOLEAN
  /\ field = DefaultFields
  /\ shuffle_once_on_install = FALSE
  /\ manifest \in Manifests
  /\ req = [r \in Requests |-> IdleRequest]
  /\ up = [h \in Uploads |-> IdleUpload]
  /\ console = <<>>
  /\ calls = <<>>
  /\ downloads = <<>>
  /\ fetches = [r \in Requests |-> <<>>]
  /\ cleared = FALSE


\* ----------------------------------------------------------- upload handler
\* The loop of the input change listener from position `from` on: the index of
\* the next file whose type starts with "text", or 0 when the loop is over.
NextTextFile(files, from) ==
  LET hits == {j \in from..Len(files) : StartsWith(files[j].type, TextPrefix)}
  IN  IF hits = {} THEN 0 ELSE CHOOSE j \in hits : \A k \in hits : j <= k

\* The handler runs up to its next `await readFileAsText(file)`: the name of
\* the file is pushed before the read is awaited.
UploadAdvance(h, files, from) ==
  LET j == NextTextFile(files, from)
  IN  IF j = 0
      THEN /\ up' = [up EXCEPT ![h] = [pc |-> "done", files |-> files, idx |-> 0]]
           /\ loaded_paths' = loaded_paths
      ELSE /\ up' = [up EXCEPT ![h] = [pc |-> "reading", files |-> files, idx |-> j]]
           /\ loaded_paths' = Append(loaded_paths, files[j].name)

\* input "change" event.
Change(h, files) ==
  /\ Responsive
  /\ up[h].pc = "idle"
  /\ \A g \in Uploads : g < h => up[g].pc # "idle"
  /\ UploadAdvance(h, files, 1)
  /\ cleared' = FALSE
  /\ UNCHANGED <<defaults_checked, default_paths, default_sources, loaded_sources,
                 include_defaults, field, shuffle_once_on_install, manifest, req,
                 console, calls, downloads, fetches>>

\* reader.onload: the awaited text is pushed, then the loop goes on.
ReadDone(h) ==
  /\ Responsive
  /\ up[h].pc = "reading"
  /\ loaded_sources' = Append(loaded_sources, TextOf(up[h].files[up[h].idx].name))
  /\ UploadAdvance(h, up[h].files, up[h].idx + 1)
  /\ UNCHANGED <<defaults_checked, default_paths, default_sources,
                 include_defaults, field, shuffle_once_on_install, manifest, req,
                 console, calls, downloads, fetches, cleared>>

\* The read fails: only onload resolves the promise, so the handler never resumes.
ReadFails(h) ==
  /\ Responsive
  /\ up[h].pc = "reading"
  /\ up' = [up EXCEPT ![h].pc = "stuck"]
  /\ UNCHANGED <<defaults_checked, default_paths, default_sources, loaded_paths,
                 loaded_sources, include_defaults, field, shuffle_once_on_install,
                 manifest, req, console, calls, downloads, fetches, cleared>>

\* A clear_uploads that would also forget the baseline load.
ClearUploadsForgetsLoad ==
  /\ Responsive
  /\ loaded_paths' = <<>>
  /\ loaded_sources' = <<>>
  /\ defaults_checked' = FALSE
  /\ cleared' = TRUE
  /\ UNCHANGED <<default_paths, default_sources,
                 include_defaults, field, shuffle_once_on_install, manifest, req, up,
                 console, calls, downloads, fetches>>

\* clear_uploads "click" event.
ClearUploads ==
  /\ Responsive
  /\ loaded_paths' = <<>>
  /\ loaded_sources' = <<>>
  /\ cleared' = TRUE
  /\ UNCHANGED <<defaults_checked, default_paths, default_sources,
                 include_defaults, field, shuffle_once_on_install, manifest, req, up,
                 console, calls, downloads, fetches>>

\* The user ticks or unticks "include defaults".
ToggleIncludeDefaults ==
  /\ Responsive
  /\ include_defaults' = ~include_defaults
  /\ UNCHANGED <<defaults_checked, default_paths, default_sources, loaded_paths,
                 loaded_sources, field, shuffle_once_on_install, manifest, req, up,
                 console, calls, downloads, fetches, cleared>>


\* ------------------------------------------------------ generation handlers
\* The fields a click handler checks, in the order it checks them.
CheckedFields(kind) ==
  CASE kind = "system_shuffler" -> CheckedShufflerFields
    [] kind = "chaos" -> CheckedChaosFields
    [] kind = "full_map" -> <<>>

ErrorMessage(f) ==
  CASE f = "system-shuffler-seed" -> "ERROR: System Shuffler seed is not a valid value"
    [] f = "system-shuffler-max-presets" -> "ERROR: System Shuffler max presets is not a valid value"
    [] f = "system-shuffler-shuffle-chance-output" -> "ERROR: System Shuffler chance is not a valid value"
    [] f = "system-shuffler-fixed-shuffle-days-output" -> "ERROR: System Shuffler fixed shuffle days is not a valid value"
    [] f = "chaos-seed" -> "ERROR: Chaos seed is not a valid value"

\* A variant that checks nothing.
ValidationErrorsSkipped(kind, fld) == <<>>

\* A variant that stops at the first invalid field.
ValidationErrorsShortCircuit(kind, fld) ==
  LET bad == SelectSeq(CheckedFields(kind), LAMBDA f : ~checkValidity(fld[f]))
  IN  [i \in 1..(IF Len(bad) >= 1 THEN 1 ELSE 0) |-> ErrorMessage(bad[i])]

\* The console.error calls of the validity checks of a click handler.
ValidationErrors(kind, fld) ==
  LET bad == SelectSeq(CheckedFields(kind), LAMBDA f : ~checkValidity(fld[f]))
  IN  [i \in 1..Len(bad) |-> ErrorMessage(bad[i])]

\* A variant that never aborts the handler.
ErroredIgnored(errs) == FALSE

\* `errored` at `if (errored) { return; }`.
Errored(errs) == Len(errs) >= 1

\* The configuration object built at the call of the generator.
Config(kind, fld, once) ==
  CASE kind = "system_shuffler" ->
         <<fld["system-shuffler-seed"], fld["system-shuffler-max-presets"],
           fld["system-shuffler-shuffle-chance-output"],
           fld["system-shuffler-fixed-shuffle-days-output"], once>>
    [] kind = "chaos" -> <<fld["chaos-seed"]>>
    [] kind = "full_map" -> <<>>

\* A variant that loads the baseline whatever the toggle says.
NeedsDefaultsUnconditionally(checked, inc) == ~checked

\* `!defaults_checked && include_defaults.checked`
NeedsDefaults(checked, inc) == ~checked /\ inc

\* A variant that puts the uploaded entries first.
PathsAndSourcesUploadedFirst(inc, dp, ds, lp, ls) ==
  [paths |-> IF inc THEN lp \o dp ELSE lp,
   sources |-> IF inc THEN ls \o ds ELSE ls]

\* The object getPathsAndSources returns.
PathsAndSources(inc, dp, ds, lp, ls) ==
  [paths |-> IF inc THEN dp \o lp ELSE lp,
   sources |-> IF inc THEN ds \o ls ELSE ls]

\* A variant that calls downloadZip even when the generator raised.
DownloadsAlways(r, kind, out) ==
  Append(downloads, [req |-> r, fileName |-> fileName(kind), bytes |-> out.bytes])

\* downloadZip is reached only when the call of the generator returned.
DownloadsAfter(r, kind, out) ==
  IF out \in {Raised, NoReturn}
  THEN downloads
  ELSE Append(downloads, [req |-> r, fileName |-> fileName(kind), bytes |-> out.bytes])

ConsoleAfter(r, out) ==
  IF out = Raised
  THEN Append(console, [req |-> r, msg |-> "generator error"])
  ELSE console

Loading(rec) == rec.pc \in {"await_manifest", "await_doc"}

\* Where the handler is after the generator call with outcome `out`.
PcAfter(out) ==
  CASE out = Raised -> "raised"
    [] out = NoReturn -> "calling"
    [] OTHER -> "downloaded"

\* A variant that hands the generator the upload registry itself instead of
\* what getPathsAndSources returned.
CompleteWithRegistry(r, rec, dp, ds) ==
  LET ret == PathsAndSources(include_defaults, dp, ds, loaded_paths, loaded_sources)
  IN  \E out \in GeneratorOutcomes :
        /\ calls' = Append(calls,
             [req |-> r, kind |-> rec.kind, paths |-> loaded_paths, sources |-> loaded_sources,
              config |-> Config(rec.kind, field, shuffle_once_on_install), outcome |-> out])
        /\ downloads' = DownloadsAfter(r, rec.kind, out)
        /\ console' = ConsoleAfter(r, out)
        /\ req' = [req EXCEPT ![r] =
             [rec EXCEPT !.pc = PcAfter(out),
                         !.paths_and_sources = ret]]

\* From the return of getPathsAndSources to the end of the handler: the call
\* of the generator inside try/catch, then downloadZip.  dp and ds are the
\* baseline arrays at the return.
Complete(r, rec, dp, ds) ==
  LET ret == PathsAndSources(include_defaults, dp, ds, loaded_paths, loaded_sources)
  IN  \E out \in GeneratorOutcomes :
        /\ calls' = Append(calls,
             [req |-> r, kind |-> rec.kind, paths |-> ret.paths, sources |-> ret.sources,
              config |-> Config(rec.kind, field, shuffle_once_on_install), outcome |-> out])
        /\ downloads' = DownloadsAfter(r, rec.kind, out)
        /\ console' = ConsoleAfter(r, out)
        /\ req' = [req EXCEPT ![r] =
             [rec EXCEPT !.pc = PcAfter(out),
                         !.paths_and_sources = ret]]

\* The call of getPathsAndSources by request r: either the manifest is
\* fetched and the handler waits for it, or the function returns at once.
GetPathsAndSources(r, rec) ==
  IF NeedsDefaults(defaults_checked, include_defaults)
  THEN /\ fetches' = [fetches EXCEPT ![r] = Append(@, ManifestUrl)]
       /\ req' = [q \in Requests |->
            IF q = r THEN [rec EXCEPT !.pc = "await_manifest",
                                      !.overlapped = \E o \in Requests : Loading(req[o])]
            ELSE IF Loading(req[q]) THEN [req[q] EXCEPT !.overlapped = TRUE]
            ELSE req[q]]
       /\ UNCHANGED <<calls, downloads, console>>
  ELSE /\ Complete(r, rec, default_paths, default_sources)
       /\ UNCHANGED fetches

\* "click" on one of the three output buttons.
Click(r, kind) ==
  /\ Responsive
  /\ req[r].pc = "idle"
  /\ \A q \in Requests : q < r => req[q].pc # "idle"
  /\ LET errs == ValidationErrors(kind, field)
         rec == [req[r] EXCEPT !.kind = kind]
     IN  IF Errored(errs)
         THEN /\ console' = console \o [i \in 1..Len(errs) |-> [req |-> r, msg |-> errs[i]]]
              /\ req' = [req EXCEPT ![r] = [rec EXCEPT !.pc = "invalid"]]
              /\ UNCHANGED <<calls, downloads, fetches>>
         ELSE GetPathsAndSources(r, rec)
  /\ UNCHANGED <<defaults_checked, default_paths, default_sources, loaded_paths,
                 loaded_sources, include_defaults, field, shuffle_once_on_install,
                 manifest, up, cleared>>

\* The manifest request fails (network error): fetch rejects, nothing catches it.
ManifestRejected(r) ==
  /\ Responsive
  /\ req[r].pc = "await_manifest"
  /\ req' = [req EXCEPT ![r].pc = "uncaught"]
  /\ UNCHANGED <<defaults_checked, default_paths, default_sources, loaded_paths,
                 loaded_sources, include_defaults, field, shuffle_once_on_install,
                 manifest, up, console, calls, downloads, fetches, cleared>>

\* A variant in which the handler never resumes after a manifest response
\* that is not OK.
ManifestNotOkNeverResumes(r) ==
  /\ Responsive
  /\ req[r].pc = "await_manifest"
  /\ req' = [req EXCEPT ![r].pc = "suspended"]
  /\ UNCHANGED <<defaults_checked, default_paths, default_sources, loaded_paths,
                 loaded_sources, include_defaults, field, shuffle_once_on_install,
                 manifest, up, console, calls, downloads, fetches, cleared>>

\* The manifest response is not OK: es_stable_data_paths is [] and the
\* function returns.
ManifestNotOk(r) ==
  /\ Responsive
  /\ req[r].pc = "await_manifest"
  /\ Complete(r, [req[r] EXCEPT !.es_stable_data_paths = <<>>], default_paths, default_sources)
  /\ UNCHANGED <<defaults_checked, default_paths, default_sources, loaded_paths,
                 loaded_sources, include_defaults, field, shuffle_once_on_install,
                 manifest, up, fetches, cleared>>

\* The locations the loop of request record rec walks.
Lines(rec) == Split(rec.es_stable_data_paths[1], NL)

\* The manifest response is OK: its text is split and the first location fetched.
ManifestOk(r) ==
  /\ Responsive
  /\ req[r].pc = "await_manifest"
  /\ LET rec == [req[r] EXCEPT !.es_stable_data_paths = <<manifest>>, !.i = 1, !.pc = "await_doc"]
     IN  /\ req' = [req EXCEPT ![r] = rec]
         /\ fetches' = [fetches EXCEPT ![r] = Append(@, Lines(rec)[1])]
  /\ UNCHANGED <<defaults_checked, default_paths, default_sources, loaded_paths,
                 loaded_sources, include_defaults, field, shuffle_once_on_install,
                 manifest, up, console, calls, downloads, cleared>>

\* A document request fails (network error): fetch rejects, nothing catches it.
DocRejected(r) ==
  /\ Responsive
  /\ req[r].pc = "await_doc"
  /\ req' = [req EXCEPT ![r].pc = "uncaught"]
  /\ UNCHANGED <<defaults_checked, default_paths, default_sources, loaded_paths,
                 loaded_sources, include_defaults, field, shuffle_once_on_install,
                 manifest, up, console, calls, downloads, fetches, cleared>>

\* The baseline arrays after the response for `path`: pushed to when it is OK.
PushDefault(arr, ok, item) == IF ok THEN Append(arr, item) ELSE arr

\* `defaults_checked = true` after the loop.
LatchAfterLoop == TRUE

\* A document response arrives (OK or not); the loop goes on to the next
\* location, or ends: the latch is set and the function returns.
DocResponse(r, ok) ==
  /\ Responsive
  /\ req[r].pc = "await_doc"
  /\ LET path == Lines(req[r])[req[r].i]
         dp == PushDefault(default_paths, ok, path)
         ds == PushDefault(default_sources, ok, TextOf(path))
         rec == [req[r] EXCEPT !.oks = Append(@, ok)]
     IN  /\ default_paths' = dp
         /\ default_sources' = ds
         /\ IF req[r].i < Len(Lines(req[r]))
            THEN /\ req' = [req EXCEPT ![r] = [rec EXCEPT !.i = @ + 1]]
                 /\ fetches' = [fetches EXCEPT ![r] = Append(@, Lines(req[r])[req[r].i + 1])]
                 /\ UNCHANGED <<defaults_checked, calls, downloads, console>>
            ELSE /\ defaults_checked' = LatchAfterLoop
                 /\ Complete(r, rec, dp, ds)
                 /\ UNCHANGED fetches
  /\ UNCHANGED <<loaded_paths, loaded_sources, include_defaults, field,
                 shuffle_once_on_install, manifest, up, cleared>>

\* "input" event on a checked field: the user sets its value.  (For the two
\* fields of a share_value pair the listener copies a valid value to the
\* range input, which nothing else reads.)
EditField(f, v) ==
  /\ Responsive
  /\ field[f] # v
  /\ field' = [field EXCEPT ![f] = v]
  /\ UNCHANGED <<defaults_checked, default_paths, default_sources, loaded_paths,
                 loaded_sources, include_defaults, shuffle_once_on_install, manifest,
                 req, up, console, calls, downloads, fetches, cleared>>

\* "input" event on a range input: share_value copies its value to the checked
\* field when the range input holds a valid value.
EditRange(f, v) ==
  /\ Responsive
  /\ checkValidity(v)
  /\ field[RangePartner[f]] # v
  /\ field' = [field EXCEPT ![RangePartner[f]] = v]
  /\ UNCHANGED <<defaults_checked, default_paths, default_sources, loaded_paths,
                 loaded_sources, include_defaults, shuffle_once_on_install, manifest,
                 req, up, console, calls, downloads, fetches, cleared>>

ToggleShuffleOnce ==
  /\ Responsive
  /\ shuffle_once_on_install' = ~shuffle_once_on_install
  /\ UNCHANGED <<defaults_checked, default_paths, default_sources, loaded_paths,
                 loaded_sources, include_defaults, field, manifest,
                 req, up, console, calls, downloads, fetches, cleared>>

\* ---------------------------------------------------------- specifications
Uploading ==
  \/ \E h \in Uploads, files \in FileLists : Change(h, files)
  \/ \E h \in Uploads : ReadDone(h)
  \/ \E h \in Uploads : ReadFails(h)
  \/ ClearUploads

Responses ==
  \/ \E r \in Requests : ManifestRejected(r)
  \/ \E r \in Requests : ManifestNotOk(r)
  \/ \E r \in Requests : ManifestOk(r)
  \/ \E r \in Requests : DocRejected(r)
  \/ \E r \in Requests, ok \in BOOLEAN : DocResponse(r, ok)

Editing ==
  \/ \E f \in Fields, v \in FieldValues : EditField(f, v)
  \/ \E f \in RangeFields, v \in FieldValues : EditRange(f, v)
  \/ ToggleShuffleOnce

\* Every event the page can see.  The specifications below it keep a part of
\* these events each, so every behaviour of theirs is a behaviour of Spec.
Next ==
  \/ Uploading
  \/ ToggleIncludeDefaults
  \/ \E r \in Requests, kind \in Kinds : Click(r, kind)
  \/ Responses
  \/ Editing

Spec == Init /\ [][Next]_vars

\* The baseline loader alone: any manifest, overlapping full-map requests, no
\* uploads and no edits of the form.
NextLoad ==
  \/ ToggleIncludeDefaults
  \/ \E r \in Requests : Click(r, "full_map")
  \/ Responses

SpecLoad == Init /\ [][NextLoad]_vars

\* Uploads against generation requests: a manifest of one location, full-map
\* requests, no edits of the form.
OneLocation == <<"a">>

NextUpload ==
  \/ Uploading
  \/ ToggleIncludeDefaults
  \/ \E r \in Requests : Click(r, "full_map")
  \/ Responses

InitOneLocation == Init /\ manifest = OneLocation

SpecUpload == InitOneLocation /\ [][NextUpload]_vars

\* The form against generation requests of every kind: a manifest of one
\* location, no uploads.
FormRequests == 1..MaxFormRequests

NextForm ==
  \/ Editing
  \/ ToggleIncludeDefaults
  \/ \E r \in FormRequests, kind \in Kinds : Click(r, kind)
  \/ Responses

SpecForm == InitOneLocation /\ [][NextForm]_vars

\* Overlapping generation requests of every kind: a manifest of one location,
\* the form left at its defaults, no uploads.
NextKinds ==
  \/ ToggleIncludeDefaults
  \/ \E r \in Requests, kind \in Kinds : Click(r, kind)
  \/ Responses

SpecKinds == InitOneLocation /\ [][NextKinds]_vars

\* The settling of the fetch request r waits for.
Settle(r) ==
  \/ ManifestRejected(r)
  \/ ManifestNotOk(r)
  \/ ManifestOk(r)
  \/ DocRejected(r)
  \/ \E ok \in BOOLEAN : DocResponse(r, ok)

\* Overlapping generation requests of every kind under edits of the chaos
\* seed, toggle changes and clear-uploads clicks, where every fetch issued
\* settles and the continuation of its await runs once the thread is free.
NextLive ==
  \/ ClearUploads
  \/ ToggleIncludeDefaults
  \/ \E v \in FieldValues : EditField("chaos-seed", v)
  \/ \E r \in Requests, kind \in Kinds : Click(r, kind)
  \/ \E r \in Requests : Settle(r)

SpecLive ==
  /\ InitOneLocation
  /\ [][NextLive]_vars
  /\ \A r \in Requests : WF_vars(Settle(r))

\* ------------------------------------------------------------- observations
\* The handler has ended.
Finished == {"invalid", "raised", "downloaded", "uncaught"}
\* getPathsAndSources has returned and the generator was called.
Returned == {"raised", "downloaded", "calling"}

CallsOf(r) == SelectSeq(calls, LAMBDA c : c.req = r)
DownloadsOf(r) == SelectSeq(downloads, LAMBDA d : d.req = r)
ConsoleOf(r) == SelectSeq(console, LAMBDA e : e.req = r)

\* The number of fetches of the manifest issued so far.
ManifestFetches(fs) ==
  Cardinality({<<r, j>> \in Requests \X (1..(MaxManifestLen + 2)) :
                 j <= Len(fs[r]) /\ fs[r][j] = ManifestUrl /\ j = 1})

\* Request r starts in this step (its click is handled).
Starts(r) == req[r].pc = "idle" /\ req'[r].pc # "idle"

\* getPathsAndSources of request r returns in this step.
Returns(r) == req[r].pc \notin Returned /\ req'[r].pc \in Returned


\* ------------------------------------------------------------------- claims

\* C1: once a fetch of the manifest has returned an OK response, no further
\* fetch of the manifest is issued.
C1_NoManifestFetchAfterOk ==
  [][(\E q \in Requests : req[q].es_stable_data_paths # <<>>)
       => ManifestFetches(fetches') = ManifestFetches(fetches)]_vars

\* C2: at every generator invocation the paths and sources handed over have
\* the same length and sources[i] is the text of the document named paths[i].
C2_PathsMatchSources ==
  \A n \in 1..Len(calls) :
    /\ Len(calls[n].paths) = Len(calls[n].sources)
    /\ \A i \in 1..Len(calls[n].paths) :
         i <= Len(calls[n].sources) => calls[n].sources[i] = TextOf(calls[n].paths[i])

\* C3: whenever getPathsAndSources returns with "include defaults" checked,
\* the returned paths are the baseline paths followed by the uploaded paths and
\* the returned sources the baseline sources followed by the uploaded sources.
C3_BaselineThenUploaded ==
  [][\A r \in Requests :
       (Returns(r) /\ include_defaults) =>
         /\ req'[r].paths_and_sources.paths = default_paths' \o loaded_paths'
         /\ req'[r].paths_and_sources.sources = default_sources' \o loaded_sources'
         /\ calls'[Len(calls')].paths = default_paths' \o loaded_paths'
         /\ calls'[Len(calls')].sources = default_sources' \o loaded_sources']_vars

\* A request got a baseline entry followed by an uploaded entry.
C3_Witness ==
  \E r \in Requests :
    /\ req[r].pc \in Returned
    /\ req[r].paths_and_sources.paths = << <<"a">>, <<"u">> >>
    /\ req[r].paths_and_sources.sources = <<TextOf(<<"a">>), TextOf(<<"u">>)>>
    /\ default_paths = << <<"a">> >>
    /\ loaded_paths = << <<"u">> >>


\* Some field checked by a handler of this kind holds an invalid value.
InvalidFields(kind, fld) ==
  {f \in Fields : (\E i \in 1..Len(CheckedFields(kind)) : CheckedFields(kind)[i] = f)
                    /\ ~checkValidity(fld[f])}

\* C4: a generation action with an invalid checked field never invokes the
\* generator and has no other side effect: no aggregation, no fetch, no
\* download, in the step that handles the click or in any later one.
C4_InvalidHasNoEffect ==
  [][\A r \in Requests :
       ((Starts(r) /\ InvalidFields(req'[r].kind, field) # {}) \/ req[r].pc = "invalid") =>
         /\ req'[r].pc = "invalid"
         /\ req'[r].paths_and_sources = NoRet
         /\ CallsOf(r)' = <<>>
         /\ DownloadsOf(r)' = <<>>
         /\ fetches'[r] = <<>>
         /\ (Starts(r) => /\ fetches' = fetches
                          /\ calls' = calls
                          /\ downloads' = downloads
                          /\ UNCHANGED <<defaults_checked, default_paths, default_sources,
                                         loaded_paths, loaded_sources>>)]_vars

\* A System Shuffler action was aborted by validation while "include defaults"
\* was checked and the baseline not loaded.
C4_Witness ==
  \E r \in Requests :
    /\ req[r].pc = "invalid"
    /\ req[r].kind = "system_shuffler"
    /\ include_defaults
    /\ ~defaults_checked
    /\ ConsoleOf(r) # <<>>

\* C5: if the generator raises, the request produces no download; the error
\* is logged and the handler has returned.
C5_RaiseMeansNoDownload ==
  \A n \in 1..Len(calls) :
    calls[n].outcome = Raised =>
      /\ DownloadsOf(calls[n].req) = <<>>
      /\ req[calls[n].req].pc = "raised"
      /\ \E e \in 1..Len(console) :
           console[e] = [req |-> calls[n].req, msg |-> "generator error"]

C5_Witness ==
  \E n \in 1..Len(calls) :
    /\ calls[n].outcome = Raised
    /\ calls[n].kind = "system_shuffler"
    /\ req[calls[n].req].pc = "raised"

\* The number of entries of a sequence equal to x.
Count(seq, x) == Cardinality({i \in 1..Len(seq) : seq[i] = x})

\* The console.error calls a step adds.
NewConsole == SubSeq(console', Len(console) + 1, Len(console'))

\* C6: validation does not short-circuit: a generation action with N invalid
\* checked fields reports exactly N validation errors, one per invalid field,
\* and is aborted iff N >= 1.
C6_OneErrorPerInvalidField ==
  [][\A r \in Requests :
       Starts(r) =>
         LET bad == InvalidFields(req'[r].kind, field)
         IN  /\ \A f \in Fields :
                  Count(NewConsole, [req |-> r, msg |-> ErrorMessage(f)])
                    = IF f \in bad THEN 1 ELSE 0
             /\ Cardinality({i \in 1..Len(NewConsole) : NewConsole[i].msg # "generator error"})
                  = Cardinality(bad)
             /\ (req'[r].pc = "invalid") <=> (Cardinality(bad) >= 1)]_vars

\* A System Shuffler action with all four checked fields invalid was aborted
\* with four errors.
C6_Witness ==
  \E r \in Requests :
    /\ req[r].pc = "invalid"
    /\ req[r].kind = "system_shuffler"
    /\ Len(ConsoleOf(r)) = 4


\* The manifest response of request r is not OK in this step.
ManifestFails(r) ==
  /\ req[r].pc = "await_manifest"
  /\ req'[r].pc # "await_manifest"
  /\ req'[r].es_stable_data_paths = <<>>
  /\ req'[r].pc # "uncaught"

\* Some finished request had its manifest retrieval fail.
ManifestFailedBefore ==
  \E q \in Requests :
    /\ req[q].pc \in Returned
    /\ fetches[q] = <<ManifestUrl>>
    /\ req[q].es_stable_data_paths = <<>>

\* C7: if the manifest retrieval fails, the latch stays false and the baseline
\* empty, getPathsAndSources returns exactly the uploaded entries, and the next
\* generation request with "include defaults" checked fetches the manifest again.
C7_ManifestFailureLeavesNoBaseline ==
  [][\A r \in Requests :
       /\ ManifestFails(r) =>
            /\ ~defaults_checked'
            /\ default_paths' = <<>>
            /\ default_sources' = <<>>
            /\ req'[r].paths_and_sources = [paths |-> loaded_paths', sources |-> loaded_sources']
       /\ (Starts(r) /\ ManifestFailedBefore /\ include_defaults) =>
            fetches'[r] = <<ManifestUrl>>]_vars

\* The entries of `lines` whose response was OK, in order.
RECURSIVE Kept(_, _)
Kept(lines, oks) ==
  IF lines = <<>> \/ oks = <<>> THEN <<>>
  ELSE (IF Head(oks) THEN <<Head(lines)>> ELSE <<>>) \o Kept(Tail(lines), Tail(oks))

\* C8: after a baseline load that no other load overlapped, the latch is set
\* and the baseline holds exactly the listed locations whose retrieval
\* succeeded, each once, in manifest order, with their texts.
C8_BaselineIsTheRetrievedLocations ==
  \A r \in Requests :
    (req[r].pc \in Returned /\ req[r].es_stable_data_paths # <<>> /\ ~req[r].overlapped) =>
      /\ defaults_checked
      /\ Len(req[r].oks) = Len(Lines(req[r]))
      /\ default_paths = Kept(Lines(req[r]), req[r].oks)
      /\ default_sources = [j \in 1..Len(default_paths) |-> TextOf(default_paths[j])]

\* C9: after a clear-uploads action the uploaded paths and sources are both
\* empty until a new upload action is started.
C9_ClearedStaysEmpty ==
  cleared => (loaded_paths = <<>> /\ loaded_sources = <<>>)

\* C10: a generation request made with "include defaults" unchecked hands the
\* generator exactly the uploaded paths and sources, fetches nothing and leaves
\* the baseline cache and the latch alone.
C10_UncheckedPassesUploadsOnly ==
  [][\A r \in Requests :
       (Starts(r) /\ ~include_defaults /\ InvalidFields(req'[r].kind, field) = {}) =>
         /\ req'[r].pc \in Returned
         /\ Len(calls') = Len(calls) + 1
         /\ calls'[Len(calls')].req = r
         /\ calls'[Len(calls')].paths = loaded_paths
         /\ calls'[Len(calls')].sources = loaded_sources
         /\ fetches' = fetches
         /\ fetches'[r] = <<>>
         /\ UNCHANGED <<defaults_checked, default_paths, default_sources>>]_vars

\* A request made with "include defaults" unchecked handed over the two
\* uploaded entries alone, and the baseline holds an entry.
C10_Witness ==
  \E n \in 1..Len(calls) :
    /\ fetches[calls[n].req] = <<>>
    /\ ~include_defaults
    /\ default_paths # <<>>
    /\ calls[n].paths = << <<"u">>, <<"a">> >>
    /\ calls[n].sources = <<TextOf(<<"u">>), TextOf(<<"a">>)>>
    /\ loaded_paths = calls[n].paths

\* C11: the latch defaults_checked starts false and, once true, stays true
\* whatever uploads, clears, toggles, responses and requests follow.
C11_LatchIsOneWay ==
  /\ ~defaults_checked
  /\ [][defaults_checked => defaults_checked']_vars

\* The latch is set and a later request, made with the toggle checked, was
\* handed the cached baseline without fetching anything; the uploads were
\* cleared on the way.
C11_Witness ==
  /\ defaults_checked
  /\ cleared
  /\ default_paths # <<>>
  /\ \E n \in 1..Len(calls) :
       /\ calls[n].req = 2
       /\ fetches[2] = <<>>
       /\ calls[n].paths = default_paths

\* C12: once the latch is set the baseline arrays never change again, not
\* even by a request whose load was in flight when the latch was set.
C12_BaselineFrozenByLatch ==
  [][defaults_checked => UNCHANGED <<default_paths, default_sources>>]_vars

\* C13: no generation handler ends by an exception that nothing catches,
\* whatever fails: a retrieval, the validation or the generator.
C13_NoUncaughtException ==
  \A r \in Requests : req[r].pc # "uncaught"

\* The calls of the generator that returned bytes.
NormalCalls ==
  {n \in 1..Len(calls) : calls[n].outcome \in GeneratorOutcomes \ {Raised, NoReturn}}

\* C14: every generator call that returns normally is followed by exactly one
\* download of its request, named full_map.zip, system_shuffler.zip or
\* chaos.zip after the generator and carrying the returned bytes; downloads
\* and normal returns are equal in number, also when requests overlap.
C14_OneDownloadPerReturn ==
  /\ \A n \in NormalCalls :
       DownloadsOf(calls[n].req) =
         << [req |-> calls[n].req,
             fileName |-> CASE calls[n].kind = "full_map" -> "full_map.zip"
                            [] calls[n].kind = "system_shuffler" -> "system_shuffler.zip"
                            [] calls[n].kind = "chaos" -> "chaos.zip",
             bytes |-> calls[n].outcome.bytes] >>
  /\ Len(downloads) = Cardinality(NormalCalls)

\* Two overlapping requests of different kinds, both started before either
\* finished, each downloaded its own archive; the later click finished first.
C14_Witness ==
  /\ Len(downloads) = 2
  /\ downloads[1].req = 2
  /\ downloads[1].fileName = "chaos.zip"
  /\ downloads[2].fileName = "system_shuffler.zip"
  /\ downloads[1].bytes # downloads[2].bytes
  /\ fetches[1] # <<>>
  /\ fetches[2] # <<>>

\* C15, as stated: aggregation is the first stage, before validation, so every
\* generation action made with the toggle checked and the latch unset starts
\* the baseline load, whatever the validity of the form.
C15_AggregationBeforeValidation ==
  [][\A r \in Requests :
       (Starts(r) /\ include_defaults /\ ~defaults_checked) =>
         fetches'[r] = <<ManifestUrl>>]_vars

\* C15, amended: validation is the first stage and aborts the action before
\* any aggregation; a valid action made with the toggle checked and the latch
\* unset starts the baseline load before any call; the generator is called
\* with what the aggregation returned, and a download follows a normal return
\* only.
C15_ValidationThenAggregation ==
  [][\A r \in Requests :
       /\ Starts(r) =>
            IF InvalidFields(req'[r].kind, field) # {}
            THEN /\ req'[r].pc = "invalid"
                 /\ fetches'[r] = <<>>
                 /\ CallsOf(r)' = <<>>
                 /\ DownloadsOf(r)' = <<>>
            ELSE IF include_defaults /\ ~defaults_checked
            THEN /\ req'[r].pc = "await_manifest"
                 /\ fetches'[r] = <<ManifestUrl>>
                 /\ CallsOf(r)' = <<>>
                 /\ DownloadsOf(r)' = <<>>
            ELSE /\ req'[r].pc \in Returned
                 /\ fetches'[r] = <<>>
       /\ req'[r].pc \notin Returned => (CallsOf(r)' = <<>> /\ DownloadsOf(r)' = <<>>)
       /\ Returns(r) =>
            /\ Len(CallsOf(r)') = 1
            /\ CallsOf(r)'[1].paths = req'[r].paths_and_sources.paths
            /\ CallsOf(r)'[1].sources = req'[r].paths_and_sources.sources
            /\ Len(DownloadsOf(r)') =
                 (IF CallsOf(r)'[1].outcome \in {Raised, NoReturn} THEN 0 ELSE 1)]_vars

\* A valid system-shuffler action made with the toggle checked loaded the
\* baseline, called the generator with it and downloaded.
C15_Witness ==
  \E r \in Requests :
    /\ req[r].pc = "downloaded"
    /\ req[r].kind = "system_shuffler"
    /\ Len(fetches[r]) = 2
    /\ default_paths # <<>>
    /\ CallsOf(r)[1].paths = default_paths
    /\ Len(DownloadsOf(r)) = 1

NoDuplicates(seq) == \A i, j \in 1..Len(seq) : seq[i] = seq[j] => i = j

\* C17: with a manifest that lists each location once, no path occurs twice in
\* the baseline and no name occurs twice among the uploads, in every
\* reachable state.
C17_IdentifiersUnique ==
  NoDuplicates(Split(manifest, NL)) =>
    (NoDuplicates(default_paths) /\ NoDuplicates(loaded_paths))

\* C19: at every call of the system shuffler or chaos generator each checked
\* field's value in the config object satisfies its validity constraint, also
\* when the form was edited while the request waited in getPathsAndSources.
C19_ConfigIsValidated ==
  \A n \in 1..Len(calls) :
    \A i \in 1..Len(CheckedFields(calls[n].kind)) : checkValidity(calls[n].config[i])

\* C18: while a generator call that does not return is pending, other user
\* actions (here a clear-uploads click, a toggle change and a file choice) are
\* still processed.
C18_HangStallsOnlyItsRequest ==
  (\E r \in Requests : req[r].pc = "calling") =>
    /\ ENABLED ClearUploads
    /\ ENABLED ToggleIncludeDefaults
    /\ (\E h \in Uploads : up[h].pc = "idle") =>
         ENABLED (\E h \in Uploads, files \in FileLists : Change(h, files))

\* A fetch of request r failed instead of responding, or a generator call
\* does not return.
AssumptionBroken(r) == req[r].pc = "uncaught" \/ ~Responsive

\* What a handler that has ended left behind.
OutcomeOf(r) ==
  CASE req[r].pc = "invalid" ->
         /\ ConsoleOf(r) # <<>>
         /\ \A i \in 1..Len(ConsoleOf(r)) : ConsoleOf(r)[i].msg # "generator error"
         /\ CallsOf(r) = <<>>
         /\ DownloadsOf(r) = <<>>
    [] req[r].pc = "raised" ->
         /\ Len(ConsoleOf(r)) = 1
         /\ ConsoleOf(r)[1].msg = "generator error"
         /\ Len(CallsOf(r)) = 1
         /\ DownloadsOf(r) = <<>>
    [] req[r].pc = "downloaded" ->
         /\ ConsoleOf(r) = <<>>
         /\ Len(CallsOf(r)) = 1
         /\ Len(DownloadsOf(r)) = 1
    [] OTHER -> DownloadsOf(r) = <<>>

\* C20: every generation request eventually ends, aborted with reported
\* validation errors, aborted with a logged generator error, or with one
\* download, and with the traces of that one outcome only; provided its
\* fetches respond and the generator returns or raises, whatever clears,
\* toggle changes, edits and other requests come in between.
C20_RequestEndsInOneOutcome ==
  /\ [](\A r \in Requests : OutcomeOf(r))
  /\ \A r \in Requests :
       (req[r].pc # "idle") ~>
         (req[r].pc \in {"invalid", "raised", "downloaded"} \/ AssumptionBroken(r))

\* Two overlapping requests ended, one aborted by the generator and one with
\* a download, after both had fetched the manifest and a document.
C20_Witness ==
  /\ req[1].pc = "raised"
  /\ req[2].pc = "downloaded"
  /\ Len(fetches[1]) = 2
  /\ Len(fetches[2]) = 2
  /\ cleared

====
